---- MODULE Spec2Model ----
(***************************************************************************)
(* Model of taiwan_stock_calculator.py: create_price_table and             *)
(* get_price_range.  Prices are Python floats (IEEE 754 binary64); the     *)
(* model carries every float exactly, as a sign and a magnitude held as a  *)
(* fixed-point big number, and rounds every arithmetic result to 53        *)
(* significant bits, ties to even, as the hardware does.                   *)
(***************************************************************************)
EXTENDS Integers, Sequences, FiniteSets, TLC

\* ------------------------------------------------------------------------
\* Big naturals: NL limbs of LimbBits bits, little-endian.  A float
\* magnitude x is held as the natural x * 2^(LimbBits*FracLimbs).
\* ------------------------------------------------------------------------
LimbBits == 16
B == 2 ^ LimbBits
NL == 7
FracLimbs == 4
MantBits == 53
Limbs == 1..NL

BigZero == [i \in Limbs |-> 0]

\* the integer n (0 <= n < 2^31) as a fixed-point magnitude
BigOfInt(n) ==
  [i \in Limbs |-> IF i = FracLimbs + 1 THEN n % B
                   ELSE IF i = FracLimbs + 2 THEN n \div B
                   ELSE 0]

BigAdd(a, b) ==
  LET c[i \in 0..NL] == IF i = 0 THEN 0 ELSE (a[i] + b[i] + c[i-1]) \div B
  IN  [i \in Limbs |-> (a[i] + b[i] + c[i-1]) % B]

\* a - b for a >= b
BigSub(a, b) ==
  LET br[i \in 0..NL] ==
        IF i = 0 THEN 0 ELSE IF a[i] - b[i] - br[i-1] < 0 THEN 1 ELSE 0
  IN  [i \in Limbs |-> (a[i] - b[i] - br[i-1] + B) % B]

BigLess(a, b) ==
  \E i \in Limbs : a[i] < b[i] /\ \A j \in Limbs : j > i => a[j] = b[j]

BigMulSmall(a, m) ==
  LET c[i \in 0..NL] == IF i = 0 THEN 0 ELSE (a[i] * m + c[i-1]) \div B
  IN  [i \in Limbs |-> (a[i] * m + c[i-1]) % B]

\* remainder chain of the long division of a by d, from the top limb down
BigDivRem(a, d) ==
  LET r[i \in 1..(NL+1)] == IF i = NL + 1 THEN 0 ELSE (r[i+1] * B + a[i]) % d
  IN  r

BigDivSmall(a, d) ==
  LET r == BigDivRem(a, d)
  IN  [i \in Limbs |-> (r[i+1] * B + a[i]) \div d]

BigModSmall(a, d) == BigDivRem(a, d)[1]

\* number of significant bits
LimbLen(x) == IF x = 0 THEN 0 ELSE CHOOSE n \in 1..LimbBits : 2^(n-1) <= x /\ x < 2^n

BitLen(a) ==
  IF a = BigZero THEN 0
  ELSE LET t == CHOOSE i \in Limbs : a[i] # 0 /\ \A j \in Limbs : j > i => a[j] = 0
       IN  LimbBits * (t - 1) + LimbLen(a[t])

\* bit i (0-based) of a
TestBit(a, i) == (a[(i \div LimbBits) + 1] \div 2^(i % LimbBits)) % 2 = 1

\* some bit below bit i is set
LowNonzero(a, i) ==
  \/ \E j \in Limbs : j <= i \div LimbBits /\ a[j] # 0
  \/ a[(i \div LimbBits) + 1] % 2^(i % LimbBits) # 0

ClearLow(a, d) ==
  [i \in Limbs |-> IF i <= d \div LimbBits THEN 0
                   ELSE IF i = (d \div LimbBits) + 1
                        THEN (a[i] \div 2^(d % LimbBits)) * 2^(d % LimbBits)
                   ELSE a[i]]

BigPow2(d) == [i \in Limbs |-> IF i = (d \div LimbBits) + 1 THEN 2^(d % LimbBits) ELSE 0]

\* round a (plus a nonzero tail below the last limb when sticky) to
\* MantBits significant bits, ties to even
Round53(a, sticky) ==
  LET L == BitLen(a)
      d == L - MantBits
  IN  IF d <= 0 THEN a
      ELSE LET up == TestBit(a, d - 1)
                     /\ (LowNonzero(a, d - 1) \/ sticky \/ TestBit(a, d))
           IN  IF up THEN BigAdd(ClearLow(a, d), BigPow2(d)) ELSE ClearLow(a, d)

\* ------------------------------------------------------------------------
\* Floats
\* ------------------------------------------------------------------------
Fin(neg, v) == [k |-> "fin", neg |-> neg /\ v # BigZero, v |-> v]
NaN == [k |-> "nan", neg |-> FALSE, v |-> BigZero]
Inf == [k |-> "inf", neg |-> FALSE, v |-> BigZero]

\* the float nearest to n / DecScale (a decimal literal with three places)
DecScale == 1000
FromDec(n) ==
  LET m == IF n < 0 THEN -n ELSE n
      w == BigOfInt(m)
  IN  Fin(n < 0, Round53(BigDivSmall(w, DecScale), BigModSmall(w, DecScale) # 0))

\* an int operand of a float operation, converted exactly
FromInt(n) == Fin(n < 0, BigOfInt(IF n < 0 THEN -n ELSE n))

FLess(x, y) ==
  /\ x.k # "nan" /\ y.k # "nan"
  /\ \/ x.k = "inf" /\ x.neg /\ ~(y.k = "inf" /\ y.neg)
     \/ y.k = "inf" /\ ~y.neg /\ ~(x.k = "inf" /\ ~x.neg)
     \/ /\ x.k = "fin" /\ y.k = "fin"
        /\ \/ x.neg /\ ~y.neg
           \/ ~x.neg /\ ~y.neg /\ BigLess(x.v, y.v)
           \/ x.neg /\ y.neg /\ BigLess(y.v, x.v)

FEq(x, y) == x.k # "nan" /\ y.k # "nan" /\ x = y
FLe(x, y) == FLess(x, y) \/ FEq(x, y)

FNeg(x) == IF x.k = "fin" THEN Fin(~x.neg, x.v)
           ELSE IF x.k = "inf" THEN [x EXCEPT !.neg = ~x.neg] ELSE x

FAdd(x, y) ==
  IF x.k = "nan" \/ y.k = "nan" THEN NaN
  ELSE IF x.k = "inf" THEN (IF y.k = "inf" /\ y.neg # x.neg THEN NaN ELSE x)
  ELSE IF y.k = "inf" THEN y
  ELSE IF x.neg = y.neg THEN Fin(x.neg, Round53(BigAdd(x.v, y.v), FALSE))
  ELSE IF BigLess(x.v, y.v) THEN Fin(y.neg, Round53(BigSub(y.v, x.v), FALSE))
  ELSE Fin(x.neg, Round53(BigSub(x.v, y.v), FALSE))

FSub(x, y) == FAdd(x, FNeg(y))

\* x * m for a small positive int m
FMulInt(x, m) ==
  IF x.k = "fin" THEN Fin(x.neg, Round53(BigMulSmall(x.v, m), FALSE)) ELSE x

\* float.is_integer()
IsInteger(x) == x.k = "fin" /\ \A i \in 1..FracLimbs : x.v[i] = 0

\* x % m == 0 for a small positive int m
FModIsZero(x, m) ==
  /\ x.k = "fin"
  /\ BigModSmall(x.v, m) = 0
  /\ IsInteger(Fin(x.neg, BigDivSmall(x.v, m)))

\* builtin max(a, b) and min(a, b): the first argument unless the second beats it
PyMax(a, b) == IF FLess(a, b) THEN b ELSE a
PyMin(a, b) == IF FLess(b, a) THEN b ELSE a

\* the magnitude of x in hundredths, rounded half to even on the exact value
Hundredths(v) ==
  LET w == BigMulSmall(v, 100)
      ip == w[FracLimbs + 1] + B * w[FracLimbs + 2]
      half == BigPow2(LimbBits * FracLimbs - 1)
      frac == [i \in Limbs |-> IF i <= FracLimbs THEN w[i] ELSE 0]
  IN  IF BigLess(frac, half) THEN ip
      ELSE IF BigLess(half, frac) THEN ip + 1
      ELSE IF ip % 2 = 0 THEN ip ELSE ip + 1

\* the result left unrounded
Round2Skipped(x) == x

\* round(x, 2)
Round2(x) ==
  IF x.k # "fin" THEN x
  ELSE LET h == Hundredths(x.v) * (DecScale \div 100)
       IN  FromDec(IF x.neg THEN -h ELSE h)

\* ------------------------------------------------------------------------
\* Arguments a caller may pass as price: a float written as a decimal
\* literal n / DecScale, float("nan"), float("inf"), None, or a str (a
\* sequence of characters).
\* ------------------------------------------------------------------------
NoFloat == [k |-> "none", neg |-> FALSE, v |-> BigZero]

FloatArg(n) == [t |-> "float", n |-> n, s |-> <<>>]
NanArg == [t |-> "nan", n |-> 0, s |-> <<>>]
InfArg == [t |-> "inf", n |-> 0, s |-> <<>>]
NoneArg == [t |-> "none", n |-> 0, s |-> <<>>]
StrArg(s) == [t |-> "str", n |-> 0, s |-> s]

DigitChars == <<"0", "1", "2", "3", "4", "5", "6", "7", "8", "9">>
IsDigit(c) == \E d \in 1..10 : DigitChars[d] = c
DigitVal(c) == (CHOOSE d \in 1..10 : DigitChars[d] = c) - 1

RECURSIVE DigitsVal(_)
DigitsVal(s) ==
  IF s = <<>> THEN 0 ELSE DigitsVal(SubSeq(s, 1, Len(s) - 1)) * 10 + DigitVal(s[Len(s)])

\* float(str) for the strings of the model: an optional sign, then nan, inf
\* or digits with at most one point and at most three fraction digits;
\* anything else raises ValueError
ParseStr(s) ==
  LET signed == Len(s) > 0 /\ s[1] \in {"+", "-"}
      neg == Len(s) > 0 /\ s[1] = "-"
      body == IF signed THEN Tail(s) ELSE s
      dots == {i \in 1..Len(body) : body[i] = "."}
      dot == IF dots = {} THEN Len(body) + 1 ELSE CHOOSE i \in dots : TRUE
      ip == SubSeq(body, 1, dot - 1)
      fp == SubSeq(body, dot + 1, Len(body))
      pad == fp \o SubSeq(<<"0", "0", "0">>, 1, 3 - Len(fp))
      mag == DigitsVal(ip) * DecScale + DigitsVal(pad)
  IN  IF body = <<"n", "a", "n">> THEN [err |-> "", val |-> NaN]
      ELSE IF body = <<"i", "n", "f">> THEN [err |-> "", val |-> [Inf EXCEPT !.neg = neg]]
      ELSE IF /\ Cardinality(dots) <= 1
              /\ Len(ip) + Len(fp) >= 1
              /\ Len(fp) <= 3
              /\ \A i \in 1..Len(body) : i # dot => IsDigit(body[i])
           THEN [err |-> "", val |-> FromDec(IF neg THEN -mag ELSE mag)]
      ELSE [err |-> "ValueError", val |-> NoFloat]

\* float(price)
PyFloat(arg) ==
  IF arg.t = "float" THEN [err |-> "", val |-> FromDec(arg.n)]
  ELSE IF arg.t = "nan" THEN [err |-> "", val |-> NaN]
  ELSE IF arg.t = "inf" THEN [err |-> "", val |-> Inf]
  ELSE IF arg.t = "str" THEN ParseStr(arg.s)
  ELSE [err |-> "TypeError", val |-> NoFloat]

\* ------------------------------------------------------------------------
\* create_price_table
\* ------------------------------------------------------------------------
\* the table with the band (150, 500, 0.5) left out
create_price_table_gap ==
  << <<FromDec(10), FromInt(10), FromDec(10)>>,
     <<FromInt(10), FromInt(50), FromDec(50)>>,
     <<FromInt(50), FromInt(100), FromDec(100)>>,
     <<FromInt(100), FromInt(150), FromDec(500)>>,
     <<FromInt(500), FromInt(1000), FromDec(1000)>>,
     <<FromInt(1000), Inf, FromDec(5000)>> >>

create_price_table ==
  << <<FromDec(10), FromInt(10), FromDec(10)>>,
     <<FromInt(10), FromInt(50), FromDec(50)>>,
     <<FromInt(50), FromInt(100), FromDec(100)>>,
     <<FromInt(100), FromInt(150), FromDec(500)>>,
     <<FromInt(150), FromInt(500), FromDec(500)>>,
     <<FromInt(500), FromInt(1000), FromDec(1000)>>,
     <<FromInt(1000), Inf, FromDec(5000)>> >>

\* ------------------------------------------------------------------------
\* get_price_range, statement by statement
\* ------------------------------------------------------------------------
NoOutcome == [kind |-> "none", msg |-> "", lower |-> NoFloat, upper |-> NoFloat]
Raise(kind, msg) == [kind |-> kind, msg |-> msg, lower |-> NoFloat, upper |-> NoFloat]
Return(lower, upper) == [kind |-> "ok", msg |-> "", lower |-> lower, upper |-> upper]

NoIndex == -2
NoBand == <<NoFloat, NoFloat, NoFloat>>

\* the checks with the minimum tested before the sign
ValidateMinFirst(arg) ==
  LET c == PyFloat(arg)
      price == c.val
  IN  IF c.err = "ValueError" THEN Raise("InvalidPriceError", "not_a_number")
      ELSE IF c.err = "TypeError" THEN Raise("TypeError", "")
      ELSE IF FLess(price, FromDec(10)) THEN Raise("InvalidPriceError", "below_minimum")
      ELSE IF FLe(price, FromInt(0)) THEN Raise("InvalidPriceError", "not_positive")
      ELSE IF FLess(FromInt(1000000), price) THEN Raise("InvalidPriceError", "exceeds_maximum")
      ELSE NoOutcome

\* lines 56-74: conversion and the range checks; the message of the first
\* failing check, "" when all pass
Validate(arg) ==
  LET c == PyFloat(arg)
      price == c.val
  IN  IF c.err = "ValueError" THEN Raise("InvalidPriceError", "not_a_number")
      ELSE IF c.err = "TypeError" THEN Raise("TypeError", "")
      ELSE IF FLe(price, FromInt(0)) THEN Raise("InvalidPriceError", "not_positive")
      ELSE IF FLess(price, FromDec(10)) THEN Raise("InvalidPriceError", "below_minimum")
      ELSE IF FLess(FromInt(1000000), price) THEN Raise("InvalidPriceError", "exceeds_maximum")
      ELSE NoOutcome

\* [r[0] for r in ranges]
Starts(ranges) == [i \in 1..Len(ranges) |-> ranges[i][1]]

\* bisect.bisect_right(a, x), with lo and hi 0-based as in the library
RECURSIVE BisectLoop(_, _, _, _)
BisectLoop(a, x, lo, hi) ==
  IF lo < hi
  THEN LET mid == (lo + hi) \div 2
       IN  IF FLess(x, a[mid + 1]) THEN BisectLoop(a, x, lo, mid)
           ELSE BisectLoop(a, x, mid + 1, hi)
  ELSE lo

\* bisect.bisect_left in place of bisect_right
RECURSIVE BisectLeftLoop(_, _, _, _)
BisectLeftLoop(a, x, lo, hi) ==
  IF lo < hi
  THEN LET mid == (lo + hi) \div 2
       IN  IF FLess(a[mid + 1], x) THEN BisectLeftLoop(a, x, mid + 1, hi)
           ELSE BisectLeftLoop(a, x, lo, mid)
  ELSE lo

bisect_left(a, x) == BisectLeftLoop(a, x, 0, Len(a))

bisect_right(a, x) == BisectLoop(a, x, 0, Len(a))

\* line 77
LookupIndex(price, ranges) == bisect_right(Starts(ranges), price) - 1

\* list subscription: a negative index counts from the end
PyInRange(seq, i) == -Len(seq) <= i /\ i < Len(seq)
PyIndex(seq, i) == IF i < 0 THEN seq[Len(seq) + i + 1] ELSE seq[i + 1]

\* lines 81-102: the message of the tick-size rule the price breaks, "" if none
TickCheck(price, start) ==
  IF FLe(start, price) /\ FLess(price, FromInt(10)) /\ ~IsInteger(FMulInt(price, 100))
  THEN "decimals_2"
  ELSE IF FLe(FromInt(10), price) /\ FLess(price, FromInt(50)) /\ ~IsInteger(FMulInt(price, 20))
  THEN "multiple_0.05"
  ELSE IF FLe(FromInt(50), price) /\ FLess(price, FromInt(100)) /\ ~IsInteger(FMulInt(price, 10))
  THEN "multiple_0.1"
  ELSE IF FLe(FromInt(100), price) /\ FLess(price, FromInt(500)) /\ ~IsInteger(FMulInt(price, 2))
  THEN "multiple_0.5"
  ELSE IF FLe(FromInt(500), price) /\ FLess(price, FromInt(1000)) /\ ~IsInteger(price)
  THEN "integer"
  ELSE IF FLe(FromInt(1000), price) /\ ~(FModIsZero(price, 5) /\ IsInteger(price))
  THEN "multiple_5"
  ELSE ""

\* the boundary case left out
DownFluctuationSameBand(price, ranges, index, band) == band[3]

\* lines 105-108
DownFluctuation(price, ranges, index, band) ==
  IF FEq(price, band[1]) /\ index > 0 THEN PyIndex(ranges, index - 1)[3] ELSE band[3]

\* lines 110 and 114
DownPrice(price, down_fluctuation) ==
  PyMin(PyMax(FSub(price, down_fluctuation), FromDec(10)), price)

\* the fluctuation taken off instead of added
UpPriceMinus(price, fluctuation) == FSub(price, fluctuation)

\* line 111
UpPrice(price, fluctuation) == FAdd(price, fluctuation)

\* lines 104-116
Bounds(price, ranges, index, band) ==
  LET dfIndexOk == ~(FEq(price, band[1]) /\ index > 0) \/ PyInRange(ranges, index - 1)
  IN  IF ~dfIndexOk THEN Raise("IndexError", "")
      ELSE Return(Round2(DownPrice(price, DownFluctuation(price, ranges, index, band))),
                  Round2(UpPrice(price, band[3])))

\* the band taken off the list instead of read (ranges.pop())
TableAfterPop(ranges) == SubSeq(ranges, 1, Len(ranges) - 1)

\* the call only reads the table: the comprehension of line 77 builds a new
\* list, lines 78 and 106 subscript it
TableAfterRead(ranges) == ranges

\* ------------------------------------------------------------------------
\* Sample inputs
\* ------------------------------------------------------------------------
LowMax == 130
Span == 2

\* the thresholds of the checks and the band edges, in units of 1 / DecScale
Edges == {10, 10000, 50000, 100000, 150000, 500000, 1000000, 1000000000}
\* the tick sizes and the fluctuations, in the same units
Steps == {1, 10, 50, 100, 500, 1000, 5000}

ArgDecs ==
  (0..LowMax)
  \cup {e + k * s : e \in Edges, k \in (-Span)..Span, s \in Steps}
  \cup {555, 5000, 7005, 2000000000}

StrArgs ==
  { StrArg(<<"a", "b", "c">>), StrArg(<<>>), StrArg(<<"5">>),
    StrArg(<<"0", ".", "0", "7">>), StrArg(<<"1", "0", ".", "0", "3">>),
    StrArg(<<"1", ".", "2", ".", "3">>), StrArg(<<"-", "1">>), StrArg(<<".">>),
    StrArg(<<"1", "2", "a">>), StrArg(<<"n", "a", "n">>), StrArg(<<"-", "i", "n", "f">>) }

Args == {FloatArg(n) : n \in ArgDecs} \cup StrArgs \cup {NanArg, InfArg, NoneArg}

\* tables a caller may build by hand
CallerTables ==
  { << <<FromInt(1), Inf, FromDec(10)>> >>,
    << <<FromDec(10), FromInt(5), FromDec(10)>>, <<FromInt(5), Inf, FromDec(50)>> >>,
    << <<FromDec(10), Inf, FromDec(-50)>> >> }

\* inputs and callers of the interleaved runs
ConcArgs == {FloatArg(70), FloatArg(10000), FloatArg(10030), NoneArg}
NumCallers == 2

\* ------------------------------------------------------------------------
\* State
\* ------------------------------------------------------------------------
VARIABLES
  ranges,   \* the table the callers pass
  origin,   \* who built it: "none", "create_price_table" or "caller"
  frames,   \* per caller: position in get_price_range and its locals
  first     \* per input of ConcArgs: the outcome of the first finished call

vars == <<ranges, origin, frames, first>>

IdleFrame ==
  [pc |-> "idle", arg |-> NoneArg, price |-> NoFloat, index |-> NoIndex,
   band |-> NoBand, outcome |-> NoOutcome]

Done(f, outcome) == [f EXCEPT !.pc = "done", !.outcome = outcome]

InitFor(callers, tables, org) ==
  /\ ranges \in tables
  /\ origin = org
  /\ frames = [c \in callers |-> IdleFrame]
  /\ first = [a \in ConcArgs |-> NoOutcome]

AllIdle == \A c \in DOMAIN frames : frames[c].pc = "idle"

\* the caller builds the standard table
CreatePriceTable ==
  /\ AllIdle
  /\ origin # "create_price_table"
  /\ ranges' = create_price_table
  /\ origin' = "create_price_table"
  /\ UNCHANGED <<frames, first>>

\* the caller builds a table of its own
CallerTable(t) ==
  /\ AllIdle
  /\ ranges # t
  /\ ranges' = t
  /\ origin' = "caller"
  /\ UNCHANGED <<frames, first>>

\* lines 56-74
Call(c, arg) ==
  /\ frames[c].pc = "idle"
  /\ LET o == Validate(arg)
     IN  frames' = [frames EXCEPT ![c] =
           IF o.kind # "none" THEN Done([IdleFrame EXCEPT !.arg = arg], o)
           ELSE [IdleFrame EXCEPT !.pc = "validated", !.arg = arg,
                                  !.price = PyFloat(arg).val]]
  /\ UNCHANGED <<ranges, origin, first>>

\* lines 77-78
Lookup(c) ==
  /\ frames[c].pc = "validated"
  /\ LET f == frames[c]
         index == LookupIndex(f.price, ranges)
     IN  frames' = [frames EXCEPT ![c] =
           IF ~PyInRange(ranges, index)
           THEN Done([f EXCEPT !.index = index], Raise("IndexError", ""))
           ELSE [f EXCEPT !.pc = "located", !.index = index,
                          !.band = PyIndex(ranges, index)]]
  /\ ranges' = TableAfterRead(ranges)
  /\ UNCHANGED <<origin, first>>

\* lines 81-102
Tick(c) ==
  /\ frames[c].pc = "located"
  /\ LET f == frames[c]
         msg == TickCheck(f.price, f.band[1])
     IN  frames' = [frames EXCEPT ![c] =
           IF msg # "" THEN Done(f, Raise("InvalidPriceError", msg))
           ELSE [f EXCEPT !.pc = "checked"]]
  /\ UNCHANGED <<ranges, origin, first>>

\* lines 104-116
Compute(c) ==
  /\ frames[c].pc = "checked"
  /\ LET f == frames[c]
     IN  frames' = [frames EXCEPT ![c] = Done(f, Bounds(f.price, ranges, f.index, f.band))]
  /\ ranges' = TableAfterRead(ranges)
  /\ UNCHANGED <<origin, first>>

\* the caller takes the outcome; with track, the first outcome per input is kept
Finish(c, track) ==
  /\ frames[c].pc = "done"
  /\ frames' = [frames EXCEPT ![c] = IdleFrame]
  /\ first' = IF track /\ frames[c].arg \in ConcArgs /\ first[frames[c].arg] = NoOutcome
              THEN [first EXCEPT ![frames[c].arg] = frames[c].outcome]
              ELSE first
  /\ UNCHANGED <<ranges, origin>>

\* one caller, any table, all sample inputs
Init == InitFor({1}, {<<>>}, "none")

Next ==
  \/ CreatePriceTable
  \/ \E t \in CallerTables : CallerTable(t)
  \/ \E a \in Args : Call(1, a)
  \/ Lookup(1)
  \/ Tick(1)
  \/ Compute(1)
  \/ Finish(1, FALSE)

Spec == Init /\ [][Next]_vars

\* NumCallers callers interleaved on one fixed table
Callers == 1..NumCallers

InitConc ==
  \/ InitFor(Callers, {create_price_table}, "create_price_table")
  \/ InitFor(Callers, CallerTables, "caller")

NextConc ==
  \E c \in Callers :
    \/ \E a \in ConcArgs : Call(c, a)
    \/ Lookup(c)
    \/ Tick(c)
    \/ Compute(c)
    \/ Finish(c, TRUE)

SpecConc == InitConc /\ [][NextConc]_vars

\* ------------------------------------------------------------------------
\* Properties.  Prices are named by the decimal the caller wrote, in units
\* of 1 / DecScale; a returned float is named by the decimal it is the
\* nearest float to.
\* ------------------------------------------------------------------------
MinDec == 10
MaxDec == 1000000000

\* the seven bands as decimals; the last end is unbounded
StdDec ==
  << <<10, 10000, 10>>, <<10000, 50000, 50>>, <<50000, 100000, 100>>,
     <<100000, 150000, 500>>, <<150000, 500000, 500>>,
     <<500000, 1000000, 1000>>, <<1000000, 0, 5000>> >>

InBandDec(n, j) == StdDec[j][1] <= n /\ (j = Len(StdDec) \/ n < StdDec[j][2])

\* the tick-size rule of the fixed range n falls in
Conforms(n) ==
  IF n < 10000 THEN n % 10 = 0
  ELSE IF n < 50000 THEN n % 50 = 0
  ELSE IF n < 100000 THEN n % 100 = 0
  ELSE IF n < 500000 THEN n % 500 = 0
  ELSE IF n < 1000000 THEN n % 1000 = 0
  ELSE n % 5000 = 0

TickMsgs == {"decimals_2", "multiple_0.05", "multiple_0.1", "multiple_0.5", "integer", "multiple_5"}

StdTable == origin = "create_price_table"
Frames == {frames[c] : c \in DOMAIN frames}
DecDone(f) == f.pc = "done" /\ f.arg.t = "float"
Valid(f) == DecDone(f) /\ f.outcome.kind = "ok"
InRangeDec(n) == MinDec <= n /\ n <= MaxDec

MinOf(a, b) == IF a < b THEN a ELSE b
MaxOf(a, b) == IF a > b THEN a ELSE b

\* C1: with the standard table, the bounds returned for a price that passes
\* all validation enclose the price: lower <= price <= upper.
Thm_C1 ==
  \A f \in Frames :
    StdTable /\ Valid(f) =>
      FLe(f.outcome.lower, FromDec(f.arg.n)) /\ FLe(FromDec(f.arg.n), f.outcome.upper)

\* the minimum price is valid and its lower bound is clamped to the price
Wit_C1 ==
  \E f \in Frames :
    StdTable /\ Valid(f) /\ f.arg.n = MinDec /\ f.outcome.lower = FromDec(f.arg.n)

ExpectC2(n) ==
  LET j == CHOOSE i \in 1..Len(StdDec) : InBandDec(n, i)
      fl == StdDec[j][3]
      d == IF n = StdDec[j][1] /\ j > 1 THEN StdDec[j-1][3] ELSE fl
  IN  Return(FromDec(MinOf(MaxOf(n - d, MinDec), n)), FromDec(n + fl))

ExamplesC2 ==
  { <<10000, 9990, 10050>>, <<100000, 99900, 100500>>,
    <<1000000, 999000, 1005000>>, <<5000, 4990, 5010>> }

\* C2: with the standard table, for a valid price upper = price + f and
\* lower = min(max(price - d, 0.01), price), f the fluctuation of the band
\* holding the price and d the previous band's fluctuation when the price is
\* the start of a band other than the first, d = f otherwise; 10, 100, 1000
\* and 5 give (9.99, 10.05), (99.90, 100.50), (999.00, 1005.00), (4.99, 5.01).
Thm_C2 ==
  \A f \in Frames :
    /\ StdTable /\ Valid(f) => f.outcome = ExpectC2(f.arg.n)
    /\ \A e \in ExamplesC2 :
         StdTable /\ DecDone(f) /\ f.arg.n = e[1]
           => f.outcome = Return(FromDec(e[2]), FromDec(e[3]))

\* 100.00 sits on a band start and takes the previous band's fluctuation down
Wit_C2 ==
  \E f \in Frames :
    StdTable /\ Valid(f) /\ f.arg.n = 100000 /\ f.outcome.lower = FromDec(99900)

\* C3: for every price in [0.01, 1,000,000] the call raises InvalidPriceError
\* exactly when the price breaks the tick-size rule of its range.
Claim_C3 ==
  \A f \in Frames :
    StdTable /\ DecDone(f) /\ InRangeDec(f.arg.n) =>
      (f.outcome.kind = "InvalidPriceError" <=> ~Conforms(f.arg.n))

\* C4: the checks run in the order not-a-number, not-positive, below-minimum,
\* exceeds-maximum, tick size, and the first that fails is the one reported.
Thm_C4 ==
  \A f \in Frames :
    /\ f.pc = "done" /\ f.arg.t = "str" /\ ParseStr(f.arg.s).err = "ValueError"
         => f.outcome = Raise("InvalidPriceError", "not_a_number")
    /\ DecDone(f) /\ f.arg.n <= 0
         => f.outcome = Raise("InvalidPriceError", "not_positive")
    /\ DecDone(f) /\ 0 < f.arg.n /\ f.arg.n < MinDec
         => f.outcome = Raise("InvalidPriceError", "below_minimum")
    /\ DecDone(f) /\ f.arg.n > MaxDec
         => f.outcome = Raise("InvalidPriceError", "exceeds_maximum")
    /\ DecDone(f) /\ f.outcome.msg \in TickMsgs => InRangeDec(f.arg.n)
    /\ f.arg.t = "float" /\ f.pc \in {"validated", "located", "checked"}
         => InRangeDec(f.arg.n)

\* 2,000,000 is reported as exceeding the maximum
Wit_C4 ==
  \E f \in Frames :
    DecDone(f) /\ f.arg.n = 2000000000
      /\ f.outcome = Raise("InvalidPriceError", "exceeds_maximum")

NotANumber(arg) ==
  \/ arg.t \in {"none", "nan"}
  \/ arg.t = "str" /\ (ParseStr(arg.s).err = "ValueError" \/ ParseStr(arg.s).val = NaN)

\* C5: an input that is not interpretable as a real number (a non-numeric
\* string, None, a not-a-number value) always fails with InvalidPriceError.
Claim_C5 ==
  \A f \in Frames :
    f.pc = "done" /\ NotANumber(f.arg) => f.outcome.kind = "InvalidPriceError"

\* C6: with the standard table, a price that passes checks 1-4 is matched to
\* an index in 0..6, the one band with start <= price < end; a price on a
\* band edge goes to the band that starts there.
Thm_C6 ==
  \A f \in Frames :
    StdTable /\ f.arg.t = "float" /\ f.pc \in {"located", "checked", "done"}
      /\ InRangeDec(f.arg.n) =>
        /\ f.index \in 0..6
        /\ f.band = ranges[f.index + 1]
        /\ \A j \in 1..Len(StdDec) : InBandDec(f.arg.n, j) <=> j = f.index + 1
        /\ \A j \in 1..Len(ranges) :
             (FLe(ranges[j][1], f.price) /\ FLess(f.price, ranges[j][2])) <=> j = f.index + 1

\* 150 is the end of band 3 and the start of band 4 (0-based)
Wit_C6 ==
  \E f \in Frames :
    StdTable /\ f.arg.t = "float" /\ f.arg.n = 150000 /\ f.pc = "located" /\ f.index = 4

\* C7: create_price_table returns the seven bands, in order, contiguous:
\* starts strictly ascending, start < end, each end the next start, first
\* start 0.01, last end unbounded, every fluctuation positive.
Thm_C7 ==
  StdTable =>
    /\ Len(ranges) = Len(StdDec)
    /\ \A j \in 1..Len(ranges) :
         /\ ranges[j][1] = FromDec(StdDec[j][1])
         /\ ranges[j][2] = IF j = Len(StdDec) THEN Inf ELSE FromDec(StdDec[j][2])
         /\ ranges[j][3] = FromDec(StdDec[j][3])
         /\ FLess(ranges[j][1], ranges[j][2])
         /\ FLess(FromInt(0), ranges[j][3])
         /\ j < Len(ranges) =>
              FLess(ranges[j][1], ranges[j+1][1]) /\ FEq(ranges[j][2], ranges[j+1][1])
    /\ ranges[1][1] = FromDec(MinDec)
    /\ ranges[Len(ranges)][2] = Inf

Wit_C7 == StdTable /\ Len(ranges) = 7 /\ ranges[4][2] = ranges[5][1]

SameOutcome ==
  \A f \in Frames :
    f.pc = "done" =>
      /\ f.arg \in ConcArgs /\ first[f.arg] # NoOutcome => f.outcome = first[f.arg]
      /\ \A g \in Frames : g.pc = "done" /\ g.arg = f.arg => g.outcome = f.outcome

\* C8: a call, returning or raising, leaves the table unchanged, and a later
\* or interleaved call with the same price yields the outcome of the first.
Thm_C8 == [][ranges' = ranges /\ SameOutcome']_vars

\* a call ends with the outcome of the first call of its price while another
\* caller is inside a call
Wit_C8 ==
  \E c, d \in DOMAIN frames :
    /\ c # d
    /\ frames[c].pc = "done" /\ first[frames[c].arg] = frames[c].outcome
    /\ frames[d].pc \in {"validated", "located", "checked"}

\* C9: whatever the table, a price in [0.01, 10) that is not a whole number
\* of 0.01 units is rejected with InvalidPriceError.
Claim_C9 ==
  \A f \in Frames :
    DecDone(f) /\ ranges # <<>> /\ MinDec <= f.arg.n /\ f.arg.n < 10000
      /\ f.arg.n % 10 # 0 => f.outcome.kind = "InvalidPriceError"

DecOf(x) == Hundredths(x.v) * (DecScale \div 100)
ConformantFloat(x) ==
  /\ x.k = "fin" /\ ~x.neg
  /\ x = FromDec(DecOf(x))
  /\ DecOf(x) >= MinDec
  /\ Conforms(DecOf(x))

\* C10: with the standard table, each bound returned for a valid price is a
\* tick-conformant price: at least 0.01 and a multiple of the tick size of
\* the fixed range the bound itself falls in.
Thm_C10 ==
  \A f \in Frames :
    StdTable /\ Valid(f) =>
      ConformantFloat(f.outcome.lower) /\ ConformantFloat(f.outcome.upper)

\* 9.99 has its upper bound, 10.00, in the next range
Wit_C10 ==
  \E f \in Frames :
    StdTable /\ Valid(f) /\ f.arg.n = 9990 /\ f.outcome.upper = FromDec(10000)

====
